---- MODULE Spec2Model ----
(***************************************************************************)
(* The Profile page component (pages/Profile.tsx): its React state, the    *)
(* three backend tables it reads and writes (profiles, followers,          *)
(* connections) and its asynchronous handlers.  Every await / then of the  *)
(* source is a suspension point: the request is recorded in `pending`      *)
(* with the values its closure captured, and a later step applies the      *)
(* store operation and runs the continuation.                              *)
(***************************************************************************)
EXTENDS Integers, Sequences, FiniteSets, Bags

VARIABLES
    currentProfile,   \* useAuth().profile: <<>> (null) or <<row>>
    profileId,        \* the profileId prop: an id or NULL (undefined)
    profile,          \* useState<Profile | null>: <<>> or <<row>>
    isFollowing,      \* useState(false)
    followerCount,    \* useState(0)
    followers,        \* useState<Profile[]>([])
    loading,          \* useState(true)
    followersTbl,     \* rows of the 'followers' table
    connectionsTbl,   \* rows of the 'connections' table
    pending,          \* bag of requests in flight, each with its closure
    lastFail,         \* history: the last profile fetch answered failed
    connectHist       \* history: per target, how the connect clicks went

vars == <<currentProfile, profileId, profile, isFollowing, followerCount,
          followers, loading, followersTbl, connectionsTbl, pending,
          lastFail, connectHist>>

compVars == <<currentProfile, profileId, profile, isFollowing, followerCount,
              followers, loading, followersTbl, connectionsTbl, pending>>

----------------------------------------------------------------------------
(* Bounds *)

MaxPending == 4       \* requests in flight at once
MaxBusy == 2          \* the same, once one of them stems from a click
MaxFollowRows == 3    \* rows of the followers table
MaxConnRows == 2      \* rows of the connections table

NULL == "null"

Add(B, e) == B (+) SetToBag({e})
Remove(B, e) == B (-) SetToBag({e})
Size(B) == BagCardinality(B)

----------------------------------------------------------------------------
(* The store *)

\* The tables are bags of rows: a select without an order clause promises
\* no row order, and nothing in the component reads one.

\* The 'profiles' table: id is its key, user_type is 'mentor' | 'team'.
ProfilesTbl ==
    SetToBag({ [id |-> "m1", user_type |-> "mentor"],
               [id |-> "m2", user_type |-> "mentor"],
               [id |-> "t1", user_type |-> "team"] })

\* Identifiers a navigation can supply; "x" has no row in 'profiles'.  The
\* viewer's own profile is reached with no profileId (and, for t1, with it).
NavIds == {"m2", "t1", "x"}

\* Profiles the auth context can supply as the viewer.
Viewers == {"m1", "t1"}

FollowRow(a, b) == [follower_id |-> a, following_id |-> b]

\* The rows of a table that satisfy the .eq() filters, given as a set.
Where(tbl, matching) == [r \in matching |-> tbl[r]]

\* .maybeSingle(): the row when exactly one row matches, otherwise data is
\* null (no row, or an error when several rows match).
maybeSingle(rows) ==
    IF BagCardinality(rows) = 1
        THEN <<CHOOSE r \in DOMAIN rows : TRUE>> ELSE <<>>

\* from('profiles').select(...).eq('id', id)
SelectProfile(id) ==
    Where(ProfilesTbl, {r \in DOMAIN ProfilesTbl : r.id = id})

\* from('followers').select(...).eq('following_id', id)
SelectFollowersOf(tbl, id) ==
    Where(tbl, {r \in DOMAIN tbl : r.following_id = id})

\* from('followers').select('id').eq('follower_id', a).eq('following_id', b)
SelectEdge(tbl, a, b) ==
    Where(tbl, {r \in DOMAIN tbl : r.follower_id = a /\ r.following_id = b})

\* followersList.map(f => f.profiles).filter(Boolean): the joined profile of
\* each follower, dropping the edges whose follower has no profile row.
FlatMapProfiles(rows) ==
    LET ps == {p \in DOMAIN ProfilesTbl :
                  \E r \in DOMAIN rows : r.follower_id = p.id}
    IN [p \in ps |->
          BagCardinality(
              Where(rows, {r \in DOMAIN rows : r.follower_id = p.id}))]

----------------------------------------------------------------------------
(* Render-time values *)

\* const targetProfileId = profileId || currentProfile?.id
targetProfileId(pid, cp) ==
    IF pid # NULL THEN pid
    ELSE IF cp # <<>> THEN cp[1].id ELSE NULL

\* currentProfile?.id and currentProfile?.user_type (undefined when null)
IdOf(p) == IF p = <<>> THEN NULL ELSE p[1].id
UserTypeOf(p) == IF p = <<>> THEN NULL ELSE p[1].user_type

\* const isOwnProfile = currentProfile?.id === profile.id
isOwnProfile(cp, p) == IdOf(cp) = p[1].id

\* The page past the loading and not-found returns.
Rendered == ~loading /\ profile # <<>>

\* {!isOwnProfile && <button onClick={toggleFollow}>}
FollowOffered == Rendered /\ ~isOwnProfile(currentProfile, profile)

\* {currentProfile?.user_type !== profile.user_type && <button Mensagem>}
ConnectOffered ==
    FollowOffered /\ UserTypeOf(currentProfile) # profile[1].user_type

----------------------------------------------------------------------------
(* Requests in flight *)

Op(kind, tid, p, f, pre) ==
    [kind |-> kind, targetProfileId |-> tid, profile |-> p,
     isFollowing |-> f, pre |-> pre, dirty |-> FALSE]

ClickKinds == {"toggle", "connSelect", "connInsert"}

\* A request a click started: the mutation or query itself, or the reload
\* toggleFollow awaits (pre >= 0).
FromClick(o) == o.kind \in ClickKinds \/ o.pre >= 0

\* The bound on the requests in flight.
Room(B) ==
    IF \E o \in DOMAIN B : FromClick(o)
        THEN Size(B) <= MaxBusy ELSE Size(B) <= MaxPending

\* loadFollowerInfo(): nothing is fetched when there is no viewer.
loadFollowerInfo(cp, tid, p, f, pre) ==
    IF cp = <<>> THEN EmptyBag
    ELSE SetToBag({Op("followersList", tid, p, f, pre)})

\* useEffect(..., [targetProfileId]): runs when the identifier changed.
useEffect(oldTid, newTid, cp) ==
    IF newTid # oldTid /\ newTid # NULL
        THEN SetToBag({Op("loadProfile", newTid, <<>>, FALSE, -1)})
                (+) loadFollowerInfo(cp, newTid, <<>>, FALSE, -1)
        ELSE EmptyBag

\* (variant) the request reads the identifier current when it is answered
currentTarget(captured, current) == current

\* An async function reads the targetProfileId of the render that created
\* it, whatever the identifier is when its request is answered.
capturedTarget(captured, current) == captured

RECURSIVE SumOver(_, _)
SumOver(B, S) ==
    IF S = {} THEN 0
    ELSE LET q == CHOOSE q \in S : TRUE IN B[q] + SumOver(B, S \ {q})

\* History: a follower load in flight while the followers table changes.
Dirty(o) ==
    IF o.kind \in {"followersList", "following"}
        THEN [o EXCEPT !.dirty = TRUE] ELSE o

MarkDirty(B) ==
    LET S == {Dirty(o) : o \in DOMAIN B}
    IN [o \in S |-> SumOver(B, {q \in DOMAIN B : Dirty(q) = o})]

----------------------------------------------------------------------------
(* Initial state: the component is mounted and its effect has run *)

InitFollowersTbls == { SetToBag({FollowRow("m2", "t1")}) }

ConnRow(m, t) == [mentor_id |-> m, team_id |-> t, status |-> "accepted"]

InitConnectionsTbls == { EmptyBag }

InitOf(viewers, ids) ==
    /\ currentProfile \in {<<>>} \cup {maybeSingle(SelectProfile(v)) : v \in viewers}
    /\ profileId \in ids \cup {NULL}
    /\ profile = <<>>
    /\ isFollowing = FALSE
    /\ followerCount = 0
    /\ followers = EmptyBag
    /\ loading = TRUE
    /\ followersTbl \in InitFollowersTbls
    /\ connectionsTbl \in InitConnectionsTbls
    /\ pending = useEffect(NULL, targetProfileId(profileId, currentProfile),
                           currentProfile)
    /\ lastFail = FALSE
    /\ connectHist = [id \in {r.id : r \in DOMAIN ProfilesTbl} |-> "none"]

Init == InitOf(Viewers, NavIds)

----------------------------------------------------------------------------
(* The parent re-renders the page with another profileId *)

\* The prop changes; the effect runs for the new render.
SetProfileId(p, rest) ==
    LET old == targetProfileId(profileId, currentProfile)
        new == targetProfileId(p, currentProfile)
    IN /\ profileId' = p
       /\ pending' = rest (+) useEffect(old, new, currentProfile)
       /\ Room(pending')

Navigate(p) ==
    /\ p # profileId
    /\ SetProfileId(p, pending)
    /\ UNCHANGED <<currentProfile, profile, isFollowing, followerCount,
                   followers, loading, followersTbl, connectionsTbl,
                   lastFail, connectHist>>

----------------------------------------------------------------------------
(* loadProfile *)

\* (variant) the .eq('id', ...) filter is missing
loadProfileDataNoFilter(tid, fail) ==
    IF fail THEN <<>> ELSE maybeSingle(ProfilesTbl)

\* const { data } = await ...eq('id', targetProfileId).maybeSingle()
\* data is null when the fetch fails.
loadProfileData(tid, fail) ==
    IF fail THEN <<>> ELSE maybeSingle(SelectProfile(tid))

LoadProfileDone(op, fail) ==
    /\ op \in DOMAIN pending /\ op.kind = "loadProfile"
    /\ profile' = loadProfileData(
                     capturedTarget(op.targetProfileId,
                         targetProfileId(profileId, currentProfile)), fail)
    /\ loading' = FALSE
    /\ pending' = Remove(pending, op)
    /\ lastFail' = fail
    /\ UNCHANGED <<currentProfile, profileId, isFollowing, followerCount,
                   followers, followersTbl, connectionsTbl, connectHist>>

----------------------------------------------------------------------------
(* loadFollowerInfo *)

\* First fetch: the edges whose following side is the target.
FollowersListDone(op) ==
    /\ op \in DOMAIN pending /\ op.kind = "followersList"
    /\ LET tid == capturedTarget(op.targetProfileId,
                       targetProfileId(profileId, currentProfile))
           followersList == SelectFollowersOf(followersTbl, tid)
           again == IdOf(currentProfile) # tid
       IN /\ followerCount' = BagCardinality(followersList)
          /\ followers' = FlatMapProfiles(followersList)
          /\ pending' = IF again
                THEN Add(Remove(pending, op), [op EXCEPT !.kind = "following"])
                ELSE Remove(pending, op)
    /\ UNCHANGED <<currentProfile, profileId, profile, isFollowing, loading,
                   followersTbl, connectionsTbl, lastFail, connectHist>>

\* Second fetch: the single edge (viewer -> target).
FollowingDone(op) ==
    /\ op \in DOMAIN pending /\ op.kind = "following"
    /\ LET tid == capturedTarget(op.targetProfileId,
                       targetProfileId(profileId, currentProfile))
           following ==
               maybeSingle(SelectEdge(followersTbl, IdOf(currentProfile), tid))
       IN isFollowing' = (following # <<>>)
    /\ pending' = Remove(pending, op)
    /\ UNCHANGED <<currentProfile, profileId, profile, followerCount,
                   followers, loading, followersTbl, connectionsTbl,
                   lastFail, connectHist>>

----------------------------------------------------------------------------
(* toggleFollow *)

\* (variant) the mutation names targetProfileId instead of profile.id
toggleTargetById(p, tid) == tid

\* following_id of the delete and of the insert: profile.id of the render
\* the click happened in.
toggleTarget(p, tid) == p[1].id

\* (variant) the branches of the isFollowing test are swapped
toggleMutationSwapped(tbl, f, follower, following) ==
    IF ~f
        THEN Where(tbl, {r \in DOMAIN tbl :
                            ~(r.follower_id = follower
                              /\ r.following_id = following)})
        ELSE Add(tbl, FollowRow(follower, following))

\* isFollowing ? delete().eq(follower_id).eq(following_id) : insert({...})
toggleMutation(tbl, f, follower, following) ==
    IF f
        THEN Where(tbl, {r \in DOMAIN tbl :
                            ~(r.follower_id = follower
                              /\ r.following_id = following)})
        ELSE Add(tbl, FollowRow(follower, following))

\* setIsFollowing(!isFollowing)
toggledFlag(f) == ~f

InsertsInFlight ==
    SumOver(pending, {o \in DOMAIN pending : o.kind = "toggle" /\ ~o.isFollowing})

\* The click: toggleFollow runs up to its first await.  With hist the
\* request remembers the follower count the page showed at the click.
ToggleClick(hist) ==
    /\ FollowOffered
    /\ IF currentProfile = <<>> \/ profile = <<>>
         THEN UNCHANGED compVars
         ELSE LET op == Op("toggle",
                           targetProfileId(profileId, currentProfile),
                           profile, isFollowing,
                           IF hist THEN followerCount ELSE 0)
              IN /\ Room(Add(pending, op))
                 /\ isFollowing \/ Size(followersTbl) + InsertsInFlight < MaxFollowRows
                 /\ pending' = Add(pending, op)
                 /\ UNCHANGED <<currentProfile, profileId, profile,
                                isFollowing, followerCount, followers,
                                loading, followersTbl, connectionsTbl>>
    /\ UNCHANGED <<lastFail, connectHist>>

\* The store applies the mutation; the function resumes, flips the flag and
\* calls loadFollowerInfo.  With hist the follower loads in flight remember
\* that the table changed under them.
ToggleMutationDone(op, hist) ==
    /\ op \in DOMAIN pending /\ op.kind = "toggle"
    /\ followersTbl' = toggleMutation(followersTbl, op.isFollowing,
                            IdOf(currentProfile),
                            toggleTarget(op.profile, op.targetProfileId))
    /\ isFollowing' = toggledFlag(op.isFollowing)
    /\ pending' =
         LET rest == Remove(pending, op)
         IN (IF hist /\ followersTbl' # followersTbl
                THEN MarkDirty(rest) ELSE rest)
              (+) loadFollowerInfo(currentProfile, op.targetProfileId,
                                   <<>>, op.isFollowing, op.pre)
    /\ UNCHANGED <<currentProfile, profileId, profile, followerCount,
                   followers, loading, connectionsTbl, lastFail, connectHist>>

----------------------------------------------------------------------------
(* The Mensagem button *)

\* .eq(targetType, profile.id).eq(currentType, currentProfile!.id)
selectConnection(tbl, cp, p) ==
    LET isMentor == UserTypeOf(cp) = "mentor"
        targetType == IF p[1].user_type = "mentor" THEN "mentor_id" ELSE "team_id"
        currentType == IF isMentor THEN "mentor_id" ELSE "team_id"
    IN Where(tbl, {r \in DOMAIN tbl : r[targetType] = p[1].id
                                        /\ r[currentType] = cp[1].id})

\* insert({ mentor_id: ..., team_id: ..., status: 'accepted' })
connectionRow(cp, p) ==
    LET isMentor == UserTypeOf(cp) = "mentor"
    IN [mentor_id |-> IF isMentor THEN cp[1].id ELSE p[1].id,
        team_id |-> IF isMentor THEN p[1].id ELSE cp[1].id,
        status |-> "accepted"]

ConnectsInFlight ==
    SumOver(pending, {o \in DOMAIN pending : o.kind \in {"connSelect", "connInsert"}})

\* The click: currentProfile!.id raises a TypeError when there is no viewer,
\* before any request is sent; otherwise the existence query is sent.
ConnectClick ==
    /\ ConnectOffered
    /\ IF currentProfile = <<>>
         THEN UNCHANGED <<compVars, connectHist>>
         ELSE LET op == Op("connSelect", NULL, profile, FALSE, -1)
                  overlap == \E o \in DOMAIN pending :
                                /\ o.kind \in {"connSelect", "connInsert"}
                                /\ o.profile = profile
              IN /\ Room(Add(pending, op))
                 /\ Size(connectionsTbl) + ConnectsInFlight < MaxConnRows
                 /\ pending' = Add(pending, op)
                 /\ connectHist' =
                      [connectHist EXCEPT ![profile[1].id] =
                          IF overlap \/ @ = "overlap" THEN "overlap"
                          ELSE IF @ = "none" THEN "once" ELSE "again"]
                 /\ UNCHANGED <<currentProfile, profileId, profile,
                                isFollowing, followerCount, followers,
                                loading, followersTbl, connectionsTbl>>
    /\ UNCHANGED lastFail

\* .then(({ data }) => { if (!data) insert(...); onNavigate('profile', id) })
\* The insert builder of line 221 is dropped: it is neither awaited nor
\* given a then().  Whether a request leaves the page is then up to the
\* client library: a lazy client (supabase-js issues the request inside
\* then()) sends nothing, an eager one sends the insert.  `sent` ranges over
\* both.
ConnSelectDone(op, sent) ==
    /\ op \in DOMAIN pending /\ op.kind = "connSelect"
    /\ LET data == maybeSingle(
                       selectConnection(connectionsTbl, currentProfile, op.profile))
           rest == IF data = <<>> /\ sent
                     THEN Add(Remove(pending, op), [op EXCEPT !.kind = "connInsert"])
                     ELSE Remove(pending, op)
       IN SetProfileId(op.profile[1].id, rest)
    /\ UNCHANGED <<currentProfile, profile, isFollowing, followerCount,
                   followers, loading, followersTbl, connectionsTbl,
                   lastFail, connectHist>>

\* The store applies the insert nobody awaits, when the client sent it.
ConnInsertDone(op) ==
    /\ op \in DOMAIN pending /\ op.kind = "connInsert"
    /\ connectionsTbl' = Add(connectionsTbl,
                             connectionRow(currentProfile, op.profile))
    /\ pending' = Remove(pending, op)
    /\ UNCHANGED <<currentProfile, profileId, profile, isFollowing,
                   followerCount, followers, loading, followersTbl,
                   lastFail, connectHist>>

----------------------------------------------------------------------------

(* Specifications *)

\* The page as a whole.
Next ==
    \/ \E p \in NavIds \cup {NULL} : Navigate(p)
    \/ \E op \in DOMAIN pending, fail \in BOOLEAN : LoadProfileDone(op, fail)
    \/ \E op \in DOMAIN pending : FollowersListDone(op)
    \/ \E op \in DOMAIN pending : FollowingDone(op)
    \/ ToggleClick(FALSE)
    \/ \E op \in DOMAIN pending : ToggleMutationDone(op, FALSE)
    \/ ConnectClick
    \/ \E op \in DOMAIN pending, sent \in BOOLEAN : ConnSelectDone(op, sent)
    \/ \E op \in DOMAIN pending : ConnInsertDone(op)

Spec == Init /\ [][Next]_vars

\* The follow and the connect controls share no state but the profileId
\* prop, which Navigate changes in every way ConnSelectDone can; the page is
\* checked as its three projections.

\* The loads alone: navigation and the answers to the effect's requests.
NextLoad ==
    \/ \E p \in NavIds \cup {NULL} : Navigate(p)
    \/ \E op \in DOMAIN pending, fail \in BOOLEAN : LoadProfileDone(op, fail)
    \/ \E op \in DOMAIN pending : FollowersListDone(op)
    \/ \E op \in DOMAIN pending : FollowingDone(op)

SpecLoad == Init /\ [][NextLoad]_vars

\* The loads and the Mensagem button.
NextConnect ==
    \/ \E p \in NavIds \cup {NULL} : Navigate(p)
    \/ \E op \in DOMAIN pending, fail \in BOOLEAN : LoadProfileDone(op, fail)
    \/ \E op \in DOMAIN pending : FollowersListDone(op)
    \/ \E op \in DOMAIN pending : FollowingDone(op)
    \/ ConnectClick
    \/ \E op \in DOMAIN pending, sent \in BOOLEAN : ConnSelectDone(op, sent)
    \/ \E op \in DOMAIN pending : ConnInsertDone(op)

SpecConnect == Init /\ [][NextConnect]_vars

\* The loads and the follow button: roles play no part in following.
FollowViewers == {"m1"}
FollowNavIds == {"m2", "t1"}

NextFollow ==
    \/ \E p \in FollowNavIds \cup {NULL} : Navigate(p)
    \/ \E op \in DOMAIN pending, fail \in BOOLEAN : LoadProfileDone(op, fail)
    \/ \E op \in DOMAIN pending : FollowersListDone(op)
    \/ \E op \in DOMAIN pending : FollowingDone(op)
    \/ ToggleClick(FALSE)
    \/ \E op \in DOMAIN pending : ToggleMutationDone(op, FALSE)

SpecFollow == InitOf(FollowViewers, FollowNavIds) /\ [][NextFollow]_vars

\* The same with the history the follower-count properties read, for a
\* viewer moving between their own profile and one other.
HistNavIds == {"t1"}

NextFollowHist ==
    \/ \E p \in HistNavIds \cup {NULL} : Navigate(p)
    \/ \E op \in DOMAIN pending, fail \in BOOLEAN : LoadProfileDone(op, fail)
    \/ \E op \in DOMAIN pending : FollowersListDone(op)
    \/ \E op \in DOMAIN pending : FollowingDone(op)
    \/ ToggleClick(TRUE)
    \/ \E op \in DOMAIN pending : ToggleMutationDone(op, TRUE)

SpecFollowHist == InitOf(FollowViewers, HistNavIds) /\ [][NextFollowHist]_vars

----------------------------------------------------------------------------
(* Properties *)

\* The step answers request op / sends request op.
Answered(op) == op \in DOMAIN pending /\ CopiesIn(op, pending') < CopiesIn(op, pending)
Issued(op) == CopiesIn(op, pending') > CopiesIn(op, pending)

\* The step ends a loadFollowerInfo call: its last fetch is answered (the
\* second, or the first when the target is the viewer's own profile).
CycleDone(op) ==
    /\ Answered(op)
    /\ followersTbl' = followersTbl
    /\ \/ op.kind = "following"
       \/ op.kind = "followersList" /\ IdOf(currentProfile) = op.targetProfileId

TogglesInFlight == {o \in DOMAIN pending : o.kind = "toggle"}

\* C1: toggleFollow picks its mutation from the isFollowing flag of the
\* render the click happened in: true deletes every (viewer -> displayed
\* profile) edge and the flag becomes false, false inserts one such edge and
\* the flag becomes true, no other row changes; the click itself changes
\* nothing; and with no viewer or no loaded profile no request is sent and
\* nothing changes.
C1_ToggleFollowContract ==
    [][ /\ \A op \in DOMAIN pending :
              (op.kind = "toggle" /\ Answered(op)) =>
                LET row == FollowRow(IdOf(currentProfile), op.profile[1].id)
                IN /\ isFollowing' = ~op.isFollowing
                   /\ CopiesIn(row, followersTbl') =
                        IF op.isFollowing THEN 0
                        ELSE CopiesIn(row, followersTbl) + 1
                   /\ \A r \in DOMAIN followersTbl \cup DOMAIN followersTbl' :
                        r # row => CopiesIn(r, followersTbl')
                                     = CopiesIn(r, followersTbl)
        /\ \A op \in DOMAIN pending' :
              (op.kind = "toggle" /\ Issued(op)) =>
                /\ currentProfile # <<>> /\ profile # <<>>
                /\ op.isFollowing = isFollowing /\ op.profile = profile
                /\ UNCHANGED <<followersTbl, isFollowing, followerCount,
                               followers, profile, loading>>
        /\ currentProfile = <<>> =>
              /\ \A op \in DOMAIN pending' : op.kind # "toggle"
              /\ UNCHANGED <<followersTbl, isFollowing, followerCount,
                             followers>>
      ]_vars

\* C1 witness: a follow has gone through: the viewer's one edge to the
\* displayed profile is stored and the flag is true.
C1_Witness ==
    /\ currentProfile # <<>> /\ profile # <<>>
    /\ isFollowing
    /\ CopiesIn(FollowRow(IdOf(currentProfile), profile[1].id), followersTbl) = 1
    /\ TogglesInFlight = {}

\* C3: the store holds at most one (viewer -> target) edge whatever the
\* viewer clicks, and an unfollow leaves none.
C3_AtMostOneEdge ==
    [][ /\ \A r \in DOMAIN followersTbl' : followersTbl'[r] <= 1
        /\ \A op \in DOMAIN pending :
              (op.kind = "toggle" /\ Answered(op) /\ op.isFollowing) =>
                CopiesIn(FollowRow(IdOf(currentProfile), op.profile[1].id),
                         followersTbl') = 0
      ]_vars

\* C10: no insert with follower_id = following_id is ever sent, and the
\* table never holds a self-follow edge.
C10_NoSelfFollow ==
    /\ \A r \in DOMAIN followersTbl : r.follower_id # r.following_id
    /\ \A op \in TogglesInFlight :
          op.profile[1].id # IdOf(currentProfile)

\* C10 witness: a follow is in flight that was clicked on an earlier profile
\* still displayed after the viewer navigated to their own profile.
C10_Witness ==
    \E op \in TogglesInFlight :
        /\ ~op.isFollowing
        /\ op.targetProfileId = IdOf(currentProfile)
        /\ targetProfileId(profileId, currentProfile) = IdOf(currentProfile)

\* The first fetches of the reloads toggleFollow awaits.
Reloads(B) ==
    SumOver(B, {o \in DOMAIN B : o.kind = "followersList" /\ o.pre >= 0})

\* C2: a toggleFollow that mutates is followed by a reload, and when that
\* reload ends the displayed follower count is the count displayed at the
\* click plus one (follow) or minus one (unfollow).
C2_CountDeltaAfterReload ==
    [][ /\ \A op \in DOMAIN pending :
              (op.kind = "toggle" /\ Answered(op)) =>
                Reloads(pending') = Reloads(pending) + 1
        /\ \A op \in DOMAIN pending :
              (op.pre >= 0 /\ CycleDone(op)) =>
                followerCount' = op.pre + (IF op.isFollowing THEN -1 ELSE 1)
      ]_vars

\* C7: when a loadFollowerInfo call ends and the followers table did not
\* change while it ran, the displayed count is the number of stored edges
\* whose following side is its target, the list is no longer than the
\* count, and for a viewer other than the target isFollowing says whether
\* the (viewer -> target) edge exists; with no viewer the call ends at once.
C7_FollowerLoadMatchesStore ==
    [][ /\ \A op \in DOMAIN pending :
              (CycleDone(op) /\ ~op.dirty) =>
                LET t == op.targetProfileId
                    v == IdOf(currentProfile)
                IN /\ followerCount' = Size(SelectFollowersOf(followersTbl', t))
                   /\ Size(followers') <= followerCount'
                   /\ v # t =>
                        isFollowing' = (Size(SelectEdge(followersTbl', v, t)) > 0)
        /\ LET old == targetProfileId(profileId, currentProfile)
               new == targetProfileId(profileId', currentProfile)
           IN (currentProfile = <<>> /\ new # old /\ new # NULL) =>
                /\ followerCount' = Size(SelectFollowersOf(followersTbl', new))
                /\ Size(followers') <= followerCount'
      ]_vars

\* C6: when loadProfile is answered with the identifier unchanged since it
\* was called, profile is the stored row of that identifier, or null when
\* no row has it or the fetch failed, and loading is false.
C6_LoadProfileResult ==
    [][ \A op \in DOMAIN pending :
          ( /\ op.kind = "loadProfile" /\ Answered(op)
            /\ op.targetProfileId = targetProfileId(profileId, currentProfile) ) =>
              LET stored == {r \in DOMAIN ProfilesTbl : r.id = op.targetProfileId}
              IN /\ loading' = FALSE
                 /\ profile' = IF lastFail' \/ stored = {} THEN <<>>
                               ELSE <<CHOOSE r \in stored : TRUE>>
      ]_vars

\* C6 witness: the load of the current identifier has been answered with
\* its stored row.
C6_Witness ==
    /\ ~loading /\ profile # <<>> /\ ~lastFail
    /\ profile[1].id = targetProfileId(profileId, currentProfile)
    /\ \A op \in DOMAIN pending : op.kind # "loadProfile"

\* C8: every change of the target identifier puts the page back into
\* loading = true (from which the load's answer takes it to false).
C8_LoadingPerChange ==
    [][ targetProfileId(profileId', currentProfile)
          # targetProfileId(profileId, currentProfile) => loading' ]_vars

\* C9: an answer to a request issued for an identifier that is no longer
\* the target is applied all the same: the profile, the follower count and
\* the follower list become what the store holds for the old identifier.
C9_StaleResponseOverwrites ==
    [][ \A op \in DOMAIN pending :
          ( /\ Answered(op) /\ followersTbl' = followersTbl
            /\ op.targetProfileId # targetProfileId(profileId, currentProfile) ) =>
              /\ (op.kind = "loadProfile" /\ ~lastFail') =>
                    profile' = maybeSingle(SelectProfile(op.targetProfileId))
              /\ op.kind = "followersList" =>
                    /\ followerCount' =
                         Size(SelectFollowersOf(followersTbl, op.targetProfileId))
                    /\ followers' = FlatMapProfiles(
                         SelectFollowersOf(followersTbl, op.targetProfileId))
      ]_vars

\* C9 witness: nothing is in flight, the target has a stored profile, and
\* the page shows the profile and the followers of another identifier.
C9_Witness ==
    LET tid == targetProfileId(profileId, currentProfile)
    IN /\ pending = EmptyBag
       /\ currentProfile # <<>> /\ followerCount > 0
       /\ profile # <<>> /\ tid # NULL
       /\ profile[1].id # tid
       /\ SelectProfile(tid) # EmptyBag
       /\ followerCount = Size(SelectFollowersOf(followersTbl, profile[1].id))
       /\ followers = FlatMapProfiles(SelectFollowersOf(followersTbl, profile[1].id))
       /\ followerCount # Size(SelectFollowersOf(followersTbl, tid))

ConnectsFor(B, id) ==
    {o \in DOMAIN B : o.kind \in {"connSelect", "connInsert"}
                        /\ o.profile[1].id = id}

\* C4: once the connect clicks on a target, none of them made while an
\* earlier one was still in flight, have all taken effect, the store holds
\* exactly one connection row for the pair, with the mentor of the two as
\* mentor_id, the other as team_id and status 'accepted'; and the answer
\* to every existence check navigates to the target's profile.
C4_ConnectOncePerPair ==
    [][ /\ \A t \in DOMAIN connectHist :
              ( /\ connectHist'[t] \in {"once", "again"}
                /\ ConnectsFor(pending', t) = {} ) =>
                LET v == IdOf(currentProfile)
                    isMentor == UserTypeOf(currentProfile) = "mentor"
                    row == [mentor_id |-> IF isMentor THEN v ELSE t,
                            team_id |-> IF isMentor THEN t ELSE v,
                            status |-> "accepted"]
                IN /\ CopiesIn(row, connectionsTbl') = 1
                   /\ \A r \in DOMAIN connectionsTbl' :
                        {r.mentor_id, r.team_id} = {v, t} => r = row
        /\ \A op \in DOMAIN pending :
              (op.kind = "connSelect" /\ Answered(op)) =>
                profileId' = op.profile[1].id
      ]_vars

\* C5: wherever the Mensagem button is offered there is a viewer and the
\* viewer and the displayed profile are a mentor and a team; no connection
\* query or insert is in flight for a same-role pair.
C5_ConnectOnlyAcrossRoles ==
    /\ ConnectOffered =>
          /\ currentProfile # <<>>
          /\ {UserTypeOf(currentProfile), profile[1].user_type}
                = {"mentor", "team"}
    /\ \A op \in DOMAIN pending :
          op.kind \in {"connSelect", "connInsert"} =>
            {UserTypeOf(currentProfile), op.profile[1].user_type}
              = {"mentor", "team"}

====
